---- MODULE Spec2Model ----
(***************************************************************************)
(* Attendance reconciliation tool: the App component of src/App.tsx and    *)
(* the services it calls (src/unnamed/part_000, second bundle).            *)
(*                                                                         *)
(* Spec        the component as rendered: a handler runs only when the     *)
(*             control that calls it is on screen.                         *)
(* SpecDirect  the same handlers, callable at any time with any argument   *)
(*             (the component's functions taken as an interface).          *)
(* SpecRun     the upload view and the run pipeline with several           *)
(*             screenshots; review and report reduced to finalize/reset.   *)
(* SpecExcel   extractNamesFromExcel applied to every small workbook.      *)
(* SpecSearch  the report view with setSearchTerm called directly.         *)
(***************************************************************************)
EXTENDS Integers, Sequences, FiniteSets, TLC

\* ------------------------------------------------------------------ bounds
MaxShots == 1        \* screenshot files the operator can have uploaded
MaxResp == 2         \* attendees in one matching response of the oracle
MaxRunShots == 2     \* screenshot files held in the runs of SpecRun
MaxCellLen == 6      \* characters of a spreadsheet cell in SpecExcel

\* ----------------------------------------------------------------- domains
Undefined == "undefined"             \* a property the object does not have
Empty == ""                          \* the empty string
RosterNames == {"A", "B"}            \* names the roster side can carry
ZoomNames == {"A", "A-zoom"}         \* names the session side can carry
AllNames == RosterNames \cup ZoomNames \cup {Empty}

PRESENT == "PRESENT"
ABSENT == "ABSENT"
UNEXPECTED == "UNEXPECTED"
AttendanceStatus == {PRESENT, ABSENT, UNEXPECTED}
NoStatus == "null"                   \* pendingStatus = null

NoError == "null"                    \* error = null
ErrValidation == "validation"        \* App.tsx:107
ErrNoNames == "noNames"              \* App.tsx:128
ErrRun == "run"                      \* App.tsx:147, any other failure of the run
ErrExcelRead == "excelRead"          \* App.tsx:84

\* ProcessingResult | null: null is the record with isNull set.
Null == [isNull |-> TRUE, present |-> <<>>, absent |-> <<>>, unexpected |-> <<>>]
Result(p, a, u) == [isNull |-> FALSE, present |-> p, absent |-> a, unexpected |-> u]

Attendee(n, s, o) == [name |-> n, status |-> s, originalName |-> o]

\* ------------------------------------------------------------------- state
VARIABLES
  sourceMode,       \* 'excel' | 'image'
  excelFile,        \* TRUE when a File is held
  officialImage,    \* TRUE when a File is held
  screenshots,      \* number of screenshot Files held
  loading,
  progressLog,      \* sequence of progress messages
  error,
  rawResults,
  isReviewing,
  finalResults,
  selectedNames,
  showBulkConfirm,
  pendingStatus,
  searchTerm,
  excelReading,     \* handleExcelUpload is awaiting extractNamesFromExcel
  runPc,            \* where the runAnalysis call in flight is awaiting
  runShots,         \* screenshots captured by the closure of that call
  runDone,          \* images whose extraction has returned in that call
  runMode,          \* sourceMode captured by the closure of that call
  officialNames,    \* the call's local officialNames
  zoomNames,        \* processAttendance's local zoomNames (a Set, in insertion order)
  workbook,         \* jsonData: the rows of the sheet the call is reading
  calls,            \* outbound calls that call has issued, in order
  shotResults,      \* what extractNamesFromImage returned to it, per screenshot
  matchPrompt,      \* the two lists of the matching request it has sent
  inFlight,         \* runAnalysis calls past the validation and not yet ended
  thrown,           \* exception the last handler call let escape
  sessionFinalized, \* finalizeReport has promoted the session ingested last
  ingestedUnique,   \* the response ingested last named nobody twice
  rejected          \* matches rejectMatch has removed from that session

inputVars == <<sourceMode, excelFile, officialImage, screenshots, excelReading>>
runVars == <<runPc, runShots, runDone, runMode, officialNames, zoomNames, workbook,
            calls, shotResults, matchPrompt, inFlight>>
histVars == <<sessionFinalized, ingestedUnique, rejected>>
resultVars == <<rawResults, isReviewing, finalResults, histVars>>
bulkVars == <<searchTerm, selectedNames, showBulkConfirm, pendingStatus>>
vars == <<sourceMode, excelFile, officialImage, screenshots, loading, progressLog,
          error, rawResults, isReviewing, finalResults, searchTerm, selectedNames,
          showBulkConfirm, pendingStatus, excelReading, runPc, runShots, runDone,
          runMode, officialNames, zoomNames, workbook, calls, shotResults,
          matchPrompt, inFlight, thrown, sessionFinalized, ingestedUnique,
          rejected>>

\* ------------------------------------------------------------ pure helpers
\* Collation of the names of the model under localeCompare(_, 'ar').
CollationOrder == <<Empty, "A", "A-zoom", "B">>
Rank(n) == CHOOSE k \in 1..Len(CollationOrder) : CollationOrder[k] = n

LocaleCompare(a, b) ==
  IF Rank(a) < Rank(b) THEN -1 ELSE IF Rank(a) > Rank(b) THEN 1 ELSE 0

\* Insert x into the sorted list t behind every element that does not compare
\* greater (Array.prototype.sort is stable).
InsertSorted(t, x) ==
  LET k == Cardinality({j \in 1..Len(t) : LocaleCompare(t[j].name, x.name) <= 0})
  IN SubSeq(t, 1, k) \o <<x>> \o SubSeq(t, k + 1, Len(t))

RECURSIVE SortFn(_)
SortFn(list) ==
  IF Len(list) = 0 THEN <<>>
  ELSE InsertSorted(SortFn(SubSeq(list, 1, Len(list) - 1)), list[Len(list)])

\* list.filter((_, i) => i !== index), index counted from 0
RECURSIVE FilterIndex(_, _)
FilterIndex(list, index) ==
  IF Len(list) = 0 THEN <<>>
  ELSE IF Len(list) - 1 = index THEN SubSeq(list, 1, Len(list) - 1)
  ELSE Append(FilterIndex(SubSeq(list, 1, Len(list) - 1), index), list[Len(list)])

\* list.filter(a => pred), pred given as the set of names that pass
RECURSIVE FilterNames(_, _)
FilterNames(list, keep) ==
  IF Len(list) = 0 THEN <<>>
  ELSE LET rest == FilterNames(SubSeq(list, 1, Len(list) - 1), keep)
           a == list[Len(list)]
       IN IF a.name \in keep THEN Append(rest, a) ELSE rest

\* the attendees of list whose status is in the set statuses
RECURSIVE FilterStatus(_, _)
FilterStatus(list, statuses) ==
  IF Len(list) = 0 THEN <<>>
  ELSE LET rest == FilterStatus(SubSeq(list, 1, Len(list) - 1), statuses)
           a == list[Len(list)]
       IN IF a.status \in statuses THEN Append(rest, a) ELSE rest

\* x || ""
OrEmpty(x) == IF x = Undefined \/ x = Empty THEN Empty ELSE x

SeqsUpTo(S, n) == UNION {[1..k -> S] : k \in 0..n}

\* ------------------------------------------- strings taken as characters
\* A cell value or a line of an answer is the sequence of its characters.
Space == " "
Tab == "\t"
Whitespace == {Space, Tab}           \* what String.prototype.trim strips
Digits == {"0", "1", "2", "3", "4", "5", "6", "7", "8", "9"}

RECURSIVE TrimStart(_)
TrimStart(s) ==
  IF Len(s) > 0 /\ s[1] \in Whitespace THEN TrimStart(Tail(s)) ELSE s
RECURSIVE TrimEnd(_)
TrimEnd(s) ==
  IF Len(s) > 0 /\ s[Len(s)] \in Whitespace
  THEN TrimEnd(SubSeq(s, 1, Len(s) - 1)) ELSE s
Trim(s) == TrimEnd(TrimStart(s))

\* s.split(sep) for a one-character separator
RECURSIVE Split(_, _)
Split(s, sep) ==
  IF \A i \in 1..Len(s) : s[i] # sep THEN <<s>>
  ELSE LET k == CHOOSE i \in 1..Len(s) : s[i] = sep /\ \A j \in 1..(i - 1) : s[j] # sep
       IN <<SubSeq(s, 1, k - 1)>> \o Split(SubSeq(s, k + 1, Len(s)), sep)

\* isNaN(Number(val)) for a string of letters, digits and whitespace: Number
\* strips the whitespace at both ends, reads the empty string as 0 and a run
\* of digits as its value; anything else is NaN
IsNaNNumber(val) == \E i \in 1..Len(Trim(val)) : Trim(val)[i] \notin Digits

\* set.add(n) and names.forEach(n => set.add(n)) on a Set kept in insertion
\* order
SetAdd(set, n) == IF \E i \in 1..Len(set) : set[i] = n THEN set ELSE Append(set, n)
RECURSIVE SetAddAll(_, _)
SetAddAll(set, names) ==
  IF Len(names) = 0 THEN set ELSE SetAddAll(SetAdd(set, Head(names)), Tail(names))

\* ------------------------------------------------- extractNamesFromExcel
\* jsonData is a sequence of rows, a row a sequence of cells, a cell the
\* characters of cell.toString() (none for a blank cell).
RECURSIVE Flatten(_)
Flatten(rows) == IF Len(rows) = 0 THEN <<>> ELSE Head(rows) \o Flatten(Tail(rows))

\* the test of line 372 on val = cell.toString().trim()
IsName(val) ==
  /\ val # <<>>
  /\ Len(val) > 5
  /\ Len(Split(val, Space)) >= 2
  /\ IsNaNNumber(val)

extractNamesFromExcel(rows) ==
  LET cells == Flatten(rows)
      vals == [i \in 1..Len(cells) |-> Trim(cells[i])]
  IN SetAddAll(<<>>, SelectSeq(vals, IsName))

\* cells of the workbooks
Name1 == <<"a", "a", " ", "a", "a", "a">>
Name2 == <<"a", "a", "a", " ", "a", "a">>
Number6 == <<"1", "1", "1", "1", "1", "1">>
\* the workbooks the runs of the component read
Sheets ==
  {<<>>,
   <<<<Name1>>>>,
   <<<<Name1, Number6>>, <<Name2, Name1>>>>}

\* ------------------------------------------------- extractNamesFromImage
\* The answer of the extraction call: the call throws (failed), or its text,
\* given as the lines between the "\n" characters.
Line1 == <<"a", "a", "a">>
Line2 == <<"a", "a", "1">>
ShortLine == <<"a", "a">>
PaddedLine1 == <<" ", "a", "a", "a", " ">>
ImageTexts ==
  {<<<<>>>>,
   <<Line1, PaddedLine1>>,
   <<Line2, ShortLine, Line1>>}
ImageOutcomes ==
  {[failed |-> TRUE, text |-> <<<<>>>>]} \cup {[failed |-> FALSE, text |-> t] : t \in ImageTexts}

LongerThan2(n) == Len(n) > 2
\* part_000:385-393: [] when the call throws, otherwise the trimmed lines
\* longer than 2
extractNamesFromImage(out) ==
  IF out.failed THEN <<>>
  ELSE SelectSeq([i \in 1..Len(out.text) |-> Trim(out.text[i])], LongerThan2)

\* --------------------------------------------------- the matching answer
RawPresent == [name : RosterNames, originalName : ZoomNames \cup {Undefined}]
\* JSON.parse(response.text) when it has the three arrays
Responses ==
  {r \in [present : SeqsUpTo(RawPresent, MaxResp),
          absent : SeqsUpTo(RosterNames, MaxResp),
          unexpected : SeqsUpTo(ZoomNames, MaxResp)] :
     Len(r.present) + Len(r.absent) + Len(r.unexpected) <= MaxResp}

\* MapResponse reading res.unexpected for the absent list and res.absent for
\* the unexpected list
MapResponse_Crossed(res) ==
  Result([i \in 1..Len(res.present) |->
            Attendee(res.present[i].name, PRESENT, res.present[i].originalName)],
         [i \in 1..Len(res.unexpected) |->
            Attendee(res.unexpected[i], ABSENT, Undefined)],
         [i \in 1..Len(res.absent) |-> Attendee(res.absent[i], UNEXPECTED, Undefined)])

\* processAttendance's return value for the parsed response res
MapResponse(res) ==
  Result([i \in 1..Len(res.present) |->
            Attendee(res.present[i].name, PRESENT, res.present[i].originalName)],
         [i \in 1..Len(res.absent) |-> Attendee(res.absent[i], ABSENT, Undefined)],
         [i \in 1..Len(res.unexpected) |->
            Attendee(res.unexpected[i], UNEXPECTED, Undefined)])

\* the ways the matching call yields no classification: the request rejects,
\* response.text does not parse, or the parsed object lacks some of the arrays
\* (res.x.map then throws)
MatchFailures ==
  {[kind |-> "request", missing |-> {}], [kind |-> "parse", missing |-> {}]}
    \cup {[kind |-> "shape", missing |-> m] :
             m \in (SUBSET {"present", "absent", "unexpected"}) \ {{}}}

Msg(m, n) == [msg |-> m, n |-> n]
NoPrompt == [sent |-> FALSE, official |-> <<>>, zoom |-> <<>>]
Prompt(official, zoom) == [sent |-> TRUE, official |-> official, zoom |-> zoom]

\* -------------------------------------------------------------- the views
ViewUpload == rawResults = Null /\ finalResults = Null
ViewReview == ~ViewUpload /\ isReviewing /\ rawResults # Null
ViewReport == ~ViewUpload /\ ~ViewReview /\ finalResults # Null

\* the search terms setSearchTerm is given
SearchTerms == {Empty, "Zoom"}
\* the characters of the names and of the search terms
Chars(n) ==
  CASE n = "A" -> <<"A">>
    [] n = "B" -> <<"B">>
    [] n = "A-zoom" -> <<"A", "-", "z", "o", "o", "m">>
    [] n = "Zoom" -> <<"Z", "o", "o", "m">>
    [] OTHER -> <<>>
LowerChar(c) ==
  CASE c = "A" -> "a" [] c = "B" -> "b" [] c = "Z" -> "z" [] OTHER -> c
ToLowerCase(n) == [i \in 1..Len(Chars(n)) |-> LowerChar(Chars(n)[i])]
\* s.includes(term) on characters
Includes(s, term) ==
  \E i \in 1..(Len(s) - Len(term) + 1) : SubSeq(s, i, i + Len(term) - 1) = term
FilterFn(a, term) ==
  \/ Includes(ToLowerCase(a.name), term)
  \/ a.originalName # Undefined /\ Includes(ToLowerCase(a.originalName), term)
RECURSIVE Filter(_, _)
Filter(list, term) ==
  IF Len(list) = 0 THEN <<>>
  ELSE LET rest == Filter(SubSeq(list, 1, Len(list) - 1), term)
           a == list[Len(list)]
       IN IF FilterFn(a, term) THEN Append(rest, a) ELSE rest
filteredDisplay ==
  IF finalResults = Null THEN Null
  ELSE Result(Filter(finalResults.present, ToLowerCase(searchTerm)),
              Filter(finalResults.absent, ToLowerCase(searchTerm)),
              Filter(finalResults.unexpected, ToLowerCase(searchTerm)))

NamesOf(list) == {list[i].name : i \in 1..Len(list)}
NamesIn(r) == NamesOf(r.present) \cup NamesOf(r.absent) \cup NamesOf(r.unexpected)
Size(r) == Len(r.present) + Len(r.absent) + Len(r.unexpected)
\* no name twice in a bucket, none in two buckets
Unique(r) == Cardinality(NamesIn(r)) = Size(r)

Init ==
  /\ sourceMode = "excel"
  /\ excelFile = FALSE
  /\ officialImage = FALSE
  /\ screenshots = 0
  /\ loading = FALSE
  /\ progressLog = <<>>
  /\ error = NoError
  /\ rawResults = Null
  /\ isReviewing = FALSE
  /\ finalResults = Null
  /\ selectedNames = {}
  /\ showBulkConfirm = FALSE
  /\ pendingStatus = NoStatus
  /\ searchTerm = Empty
  /\ excelReading = FALSE
  /\ runPc = "idle"
  /\ runShots = 0
  /\ runDone = 0
  /\ runMode = "excel"
  /\ officialNames = <<>>
  /\ zoomNames = <<>>
  /\ workbook = <<>>
  /\ calls = <<>>
  /\ shotResults = <<>>
  /\ matchPrompt = NoPrompt
  /\ inFlight = 0
  /\ thrown = "none"
  /\ sessionFinalized = FALSE
  /\ ingestedUnique = TRUE
  /\ rejected = 0

\* ------------------------------------------------------- upload handlers
setSourceModeTo(m) ==
  /\ sourceMode' = m
  /\ thrown' = "none"
  /\ UNCHANGED <<excelFile, officialImage, screenshots, excelReading, loading,
                 progressLog, error, resultVars, bulkVars, runVars>>

handleExcelUpload ==
  /\ excelFile' = TRUE
  /\ officialImage' = FALSE
  /\ error' = NoError
  /\ excelReading' = TRUE
  /\ thrown' = "none"
  /\ UNCHANGED <<sourceMode, screenshots, loading, progressLog, resultVars,
                 bulkVars, runVars>>

\* the await of handleExcelUpload returns: the count is stored (a value nothing
\* reads, not kept here), or the read failed
ExcelReadDone ==
  /\ excelReading
  /\ excelReading' = FALSE
  /\ \/ UNCHANGED error
     \/ error' = ErrExcelRead
  /\ thrown' = "none"
  /\ UNCHANGED <<sourceMode, excelFile, officialImage, screenshots, loading,
                 progressLog, resultVars, bulkVars, runVars>>

handleOfficialImageUpload ==
  /\ officialImage' = TRUE
  /\ excelFile' = FALSE
  /\ error' = NoError
  /\ thrown' = "none"
  /\ UNCHANGED <<sourceMode, screenshots, excelReading, loading, progressLog,
                 resultVars, bulkVars, runVars>>

\* k files picked in the dialog are appended
handleScreenshotsUpload(k) ==
  /\ screenshots' = screenshots + k
  /\ error' = NoError
  /\ thrown' = "none"
  /\ UNCHANGED <<sourceMode, excelFile, officialImage, excelReading, loading,
                 progressLog, resultVars, bulkVars, runVars>>

\* ------------------------------------------------------------ runAnalysis
\* hasSource with the mode left out of the test
hasSource_AnyFile == excelFile \/ officialImage

hasSource == IF sourceMode = "excel" THEN excelFile ELSE officialImage

\* the call has ended: its locals are gone
RunIdle ==
  /\ runPc' = "idle"
  /\ runShots' = 0
  /\ runDone' = 0
  /\ runMode' = "excel"
  /\ officialNames' = <<>>
  /\ zoomNames' = <<>>
  /\ workbook' = <<>>
  /\ calls' = <<>>
  /\ shotResults' = <<>>
  /\ matchPrompt' = NoPrompt
  /\ inFlight' = inFlight - 1

\* lines 105-109: the validation that ends the call
RunRejected ==
  /\ ~hasSource \/ screenshots = 0
  /\ error' = ErrValidation
  /\ thrown' = "none"
  /\ UNCHANGED <<inputVars, loading, progressLog, resultVars, bulkVars, runVars>>

\* lines 111-123, up to the first await: the reader of the selected mode is
\* called (in excel mode on a file whose sheet is workbook). The call made
\* last is the one whose steps are followed.
RunStarted ==
  /\ hasSource /\ screenshots # 0
  /\ loading' = TRUE
  /\ error' = NoError
  /\ progressLog' = <<Msg(IF sourceMode = "excel" THEN "excel" ELSE "rosterImage", 0)>>
  /\ runPc' = "roster"
  /\ runShots' = screenshots
  /\ runDone' = 0
  /\ runMode' = sourceMode
  /\ officialNames' = <<>>
  /\ zoomNames' = <<>>
  /\ IF sourceMode = "excel"
     THEN workbook' \in Sheets /\ calls' = <<"rosterExcel">>
     ELSE workbook' = <<>> /\ calls' = <<"rosterImage">>
  /\ shotResults' = <<>>
  /\ matchPrompt' = NoPrompt
  /\ inFlight' = inFlight + 1
  /\ thrown' = "none"
  /\ UNCHANGED <<inputVars, resultVars, bulkVars>>

runAnalysis == RunRejected \/ RunStarted

\* RunFails without the finally of lines 148-150
RunFails_NoFinally(e) ==
  /\ error' = e
  /\ UNCHANGED loading
  /\ RunIdle
  /\ thrown' = "none"
  /\ UNCHANGED <<inputVars, resultVars, bulkVars>>

\* catch and finally of runAnalysis, lines 145-150
RunFails(e) ==
  /\ error' = e
  /\ loading' = FALSE
  /\ RunIdle
  /\ thrown' = "none"
  /\ UNCHANGED <<inputVars, resultVars, bulkVars>>

\* RosterExtracted turning to the reader of the other mode when no name was
\* found and a file for that mode is held
RosterExtracted_Fallback(names) ==
  IF Len(names) = 0 /\ (IF runMode = "excel" THEN officialImage ELSE excelFile)
  THEN /\ runMode' = (IF runMode = "excel" THEN "image" ELSE "excel")
       /\ calls' = Append(calls, IF runMode = "excel" THEN "rosterImage"
                                 ELSE "rosterExcel")
       /\ workbook' = <<<<Name1>>>>
       /\ thrown' = "none"
       /\ UNCHANGED <<inputVars, loading, progressLog, error, resultVars, bulkVars,
                      runPc, runShots, runDone, officialNames, zoomNames,
                      shotResults, matchPrompt, inFlight>>
  ELSE /\ officialNames' = names
       /\ workbook' = <<>>
       /\ IF Len(names) = 0
          THEN /\ error' = ErrNoNames
               /\ loading' = FALSE
               /\ runPc' = "idle"
               /\ runShots' = 0
               /\ runDone' = 0
               /\ runMode' = "excel"
               /\ zoomNames' = <<>>
               /\ calls' = <<>>
               /\ inFlight' = inFlight - 1
          ELSE /\ runPc' = "encode"
               /\ UNCHANGED <<error, loading, runShots, runDone, runMode, zoomNames,
                              calls, inFlight>>
       /\ UNCHANGED <<shotResults, matchPrompt>>
       /\ progressLog' = IF runMode = "image" THEN <<Msg("extracted", Len(names))>>
                         ELSE progressLog
       /\ thrown' = "none"
       /\ UNCHANGED <<inputVars, resultVars, bulkVars>>

\* the roster extraction returns, lines 119-131
RosterExtracted(names) ==
  /\ officialNames' = names
  /\ workbook' = <<>>
  /\ IF Len(names) = 0
     THEN /\ error' = ErrNoNames
          /\ loading' = FALSE
          /\ runPc' = "idle"
          /\ runShots' = 0
          /\ runDone' = 0
          /\ runMode' = "excel"
          /\ zoomNames' = <<>>
          /\ calls' = <<>>
          /\ inFlight' = inFlight - 1
     ELSE /\ runPc' = "encode"
          /\ UNCHANGED <<error, loading, runShots, runDone, runMode, zoomNames,
                         calls, inFlight>>
  /\ UNCHANGED <<shotResults, matchPrompt>>
  /\ progressLog' = IF runMode = "image" THEN <<Msg("extracted", Len(names))>>
                    ELSE progressLog
  /\ thrown' = "none"
  /\ UNCHANGED <<inputVars, resultVars, bulkVars>>

\* the reader of the mode the call captured returns (lines 117-125), or the
\* file read fails
ExcelRosterDone ==
  /\ runPc = "roster"
  /\ runMode = "excel"
  /\ RosterExtracted(extractNamesFromExcel(workbook))

ImageRosterDone ==
  /\ runPc = "roster"
  /\ runMode = "image"
  /\ \E out \in ImageOutcomes : RosterExtracted(extractNamesFromImage(out))

RosterFails ==
  /\ runPc = "roster"
  /\ RunFails(ErrRun)
  /\ UNCHANGED progressLog

RosterDone == ExcelRosterDone \/ ImageRosterDone \/ RosterFails

\* EncodeDone with processAttendance issuing the calls of all screenshots at
\* once (a Promise.all over the screenshots)
EncodeDone_Parallel ==
  /\ runPc = "encode"
  /\ \/ /\ runPc' = "shots"
        /\ progressLog' = progressLog \o [i \in 1..runShots |-> Msg("shot", i)]
        /\ calls' = calls \o [i \in 1..runShots |-> "shot"]
        /\ thrown' = "none"
        /\ UNCHANGED <<inputVars, loading, error, resultVars, bulkVars, runShots,
                       runDone, runMode, officialNames, zoomNames, workbook,
                       shotResults, matchPrompt, inFlight>>
     \/ /\ RunFails(ErrRun)
        /\ UNCHANGED progressLog

\* Promise.all(screenshots.map(fileToBase64)) returns, line 131; then
\* processAttendance runs up to its first await (part_000:398-400)
EncodeDone ==
  /\ runPc = "encode"
  /\ \/ /\ runPc' = "shots"
        /\ progressLog' = Append(progressLog, Msg("shot", 1))
        /\ calls' = Append(calls, "shot")
        /\ thrown' = "none"
        /\ UNCHANGED <<inputVars, loading, error, resultVars, bulkVars, runShots,
                       runDone, runMode, officialNames, zoomNames, workbook,
                       shotResults, matchPrompt, inFlight>>
     \/ /\ RunFails(ErrRun)
        /\ UNCHANGED progressLog

\* ShotReturned letting the failure of the extraction call end the run
ShotReturned_Fatal(out) ==
  IF out.failed
  THEN /\ RunFails(ErrRun)
       /\ UNCHANGED progressLog
  ELSE /\ zoomNames' = SetAddAll(zoomNames, extractNamesFromImage(out))
       /\ shotResults' = Append(shotResults, [failed |-> out.failed,
                                              names |-> extractNamesFromImage(out)])
       /\ runDone' = runDone + 1
       /\ IF runDone + 1 < runShots
          THEN /\ progressLog' = Append(progressLog, Msg("shot", runDone + 2))
               /\ calls' = Append(calls, "shot")
               /\ UNCHANGED <<runPc, matchPrompt>>
          ELSE /\ progressLog' = Append(progressLog, Msg("matching", 0))
               /\ calls' = Append(calls, "match")
               /\ matchPrompt' = Prompt(officialNames, zoomNames')
               /\ runPc' = "match"
       /\ thrown' = "none"
       /\ UNCHANGED <<inputVars, loading, error, resultVars, bulkVars, runShots,
                      runMode, officialNames, workbook, inFlight>>

\* ShotReturned keeping the names of the screenshot read last only
ShotReturned_LastOnly(out) ==
  /\ zoomNames' = SetAddAll(<<>>, extractNamesFromImage(out))
  /\ shotResults' = Append(shotResults, [failed |-> out.failed,
                                         names |-> extractNamesFromImage(out)])
  /\ runDone' = runDone + 1
  /\ IF runDone + 1 < runShots
     THEN /\ progressLog' = Append(progressLog, Msg("shot", runDone + 2))
          /\ calls' = Append(calls, "shot")
          /\ UNCHANGED <<runPc, matchPrompt>>
     ELSE /\ progressLog' = Append(progressLog, Msg("matching", 0))
          /\ calls' = Append(calls, "match")
          /\ matchPrompt' = Prompt(officialNames, zoomNames')
          /\ runPc' = "match"
  /\ thrown' = "none"
  /\ UNCHANGED <<inputVars, loading, error, resultVars, bulkVars, runShots,
                 runMode, officialNames, workbook, inFlight>>

\* extractNamesFromImage of screenshot runDone+1 returns with the answer out;
\* the loop goes on to its next await: the next screenshot's call, or the
\* matching request (part_000:398-406)
ShotReturned(out) ==
  /\ zoomNames' = SetAddAll(zoomNames, extractNamesFromImage(out))
  /\ shotResults' = Append(shotResults, [failed |-> out.failed,
                                         names |-> extractNamesFromImage(out)])
  /\ runDone' = runDone + 1
  /\ IF runDone + 1 < runShots
     THEN /\ progressLog' = Append(progressLog, Msg("shot", runDone + 2))
          /\ calls' = Append(calls, "shot")
          /\ UNCHANGED <<runPc, matchPrompt>>
     ELSE /\ progressLog' = Append(progressLog, Msg("matching", 0))
          /\ calls' = Append(calls, "match")
          /\ matchPrompt' = Prompt(officialNames, zoomNames')
          /\ runPc' = "match"
  /\ thrown' = "none"
  /\ UNCHANGED <<inputVars, loading, error, resultVars, bulkVars, runShots,
                 runMode, officialNames, workbook, inFlight>>

ShotDone == runPc = "shots" /\ \E out \in ImageOutcomes : ShotReturned(out)

\* Ingest storing the response as the report, with no review
Ingest_SkipReview(res) ==
  /\ finalResults' = Result(SortFn(res.present), SortFn(res.absent),
                            SortFn(res.unexpected))
  /\ sessionFinalized' = FALSE
  /\ ingestedUnique' = Unique(res)
  /\ rejected' = 0
  /\ loading' = FALSE
  /\ RunIdle
  /\ thrown' = "none"
  /\ UNCHANGED <<inputVars, progressLog, error, rawResults, isReviewing, bulkVars>>

\* lines 137-144 with the finally of line 149
Ingest(res) ==
  /\ rawResults' = Result(SortFn(res.present), SortFn(res.absent),
                          SortFn(res.unexpected))
  /\ isReviewing' = TRUE
  /\ sessionFinalized' = FALSE
  /\ ingestedUnique' = Unique(res)
  /\ rejected' = 0
  /\ loading' = FALSE
  /\ RunIdle
  /\ thrown' = "none"
  /\ UNCHANGED <<inputVars, progressLog, error, finalResults, bulkVars>>

\* the matching call returns (part_000:406-427), or it fails, or its text does
\* not parse or lacks an array
\* MatchFails keeping what a response lacking absent or unexpected does hold
MatchFails_Partial(f) ==
  IF f.kind = "shape" /\ "present" \notin f.missing
  THEN Ingest(Result(<<>>, <<>>, <<>>))
  ELSE /\ RunFails(ErrRun)
       /\ UNCHANGED progressLog

MatchFails(f) ==
  /\ RunFails(ErrRun)
  /\ UNCHANGED progressLog

MatchDone ==
  /\ runPc = "match"
  /\ \/ \E r \in Responses : Ingest(MapResponse(r))
     \/ \E f \in MatchFailures : MatchFails(f)

\* ------------------------------------------------------ review handlers
\* RejectedResults with the two names put into each other's bucket
RejectedResults_Swapped(r, index) ==
  LET match == r.present[index + 1]
  IN Result(FilterIndex(r.present, index),
            SortFn(Append(r.absent,
                          Attendee(OrEmpty(match.originalName), ABSENT, Undefined))),
            SortFn(Append(r.unexpected, Attendee(match.name, UNEXPECTED, Undefined))))

\* RejectedResults with the two buckets appended to and not sorted
RejectedResults_NoSort(r, index) ==
  LET match == r.present[index + 1]
  IN Result(FilterIndex(r.present, index),
            Append(r.absent, Attendee(match.name, ABSENT, Undefined)),
            Append(r.unexpected,
                   Attendee(OrEmpty(match.originalName), UNEXPECTED, Undefined)))

\* RejectedResults appending the match itself to the absent list, its status
\* as it was
RejectedResults_SameStatus(r, index) ==
  LET match == r.present[index + 1]
  IN Result(FilterIndex(r.present, index),
            SortFn(Append(r.absent, match)),
            SortFn(Append(r.unexpected,
                          Attendee(OrEmpty(match.originalName), UNEXPECTED, Undefined))))

\* the object rejectMatch hands to setRawResults, lines 155-164
RejectedResults(r, index) ==
  LET match == r.present[index + 1]
  IN Result(FilterIndex(r.present, index),
            SortFn(Append(r.absent, Attendee(match.name, ABSENT, Undefined))),
            SortFn(Append(r.unexpected,
                          Attendee(OrEmpty(match.originalName), UNEXPECTED, Undefined))))

\* rejectMatch reading the entry with present.at(index): index -1 is the last
\* entry, which the filter does not remove
rejectMatch_At(index) ==
  IF rawResults = Null
  THEN /\ thrown' = "none"
       /\ UNCHANGED <<inputVars, loading, progressLog, error, resultVars,
                      bulkVars, runVars>>
  ELSE IF index < -1 \/ index >= Len(rawResults.present)
          \/ Len(rawResults.present) = 0
  THEN /\ thrown' = "TypeError"
       /\ UNCHANGED <<inputVars, loading, progressLog, error, resultVars,
                      bulkVars, runVars>>
  ELSE LET at == IF index = -1 THEN Len(rawResults.present) ELSE index + 1
           match == rawResults.present[at]
       IN /\ rawResults' =
               Result(FilterIndex(rawResults.present, index),
                      SortFn(Append(rawResults.absent,
                                    Attendee(match.name, ABSENT, Undefined))),
                      SortFn(Append(rawResults.unexpected,
                                    Attendee(OrEmpty(match.originalName), UNEXPECTED,
                                             Undefined))))
          /\ rejected' = rejected + 1
          /\ thrown' = "none"
          /\ UNCHANGED <<inputVars, loading, progressLog, error, isReviewing,
                         finalResults, sessionFinalized, ingestedUnique, bulkVars,
                         runVars>>

rejectMatch(index) ==
  IF rawResults = Null
  THEN /\ thrown' = "none"
       /\ UNCHANGED <<inputVars, loading, progressLog, error, resultVars,
                      bulkVars, runVars>>
  ELSE IF index < 0 \/ index >= Len(rawResults.present)
  THEN \* match is undefined: reading match.name throws before any setter runs
       /\ thrown' = "TypeError"
       /\ UNCHANGED <<inputVars, loading, progressLog, error, resultVars,
                      bulkVars, runVars>>
  ELSE /\ rawResults' = RejectedResults(rawResults, index)
       /\ rejected' = rejected + 1
       /\ thrown' = "none"
       /\ UNCHANGED <<inputVars, loading, progressLog, error, isReviewing,
                      finalResults, sessionFinalized, ingestedUnique, bulkVars,
                      runVars>>

\* finalizeReport clearing the review flag without storing the report
finalizeReport_OnlyFlag ==
  /\ IF rawResults = Null
     THEN UNCHANGED resultVars
     ELSE /\ isReviewing' = FALSE
          /\ sessionFinalized' = TRUE
          /\ UNCHANGED <<rawResults, finalResults, ingestedUnique, rejected>>
  /\ thrown' = "none"
  /\ UNCHANGED <<inputVars, loading, progressLog, error, bulkVars, runVars>>

\* lines 167-171
finalizeReport ==
  /\ IF rawResults = Null
     THEN UNCHANGED resultVars
     ELSE /\ finalResults' = rawResults
          /\ isReviewing' = FALSE
          /\ sessionFinalized' = TRUE
          /\ UNCHANGED <<rawResults, ingestedUnique, rejected>>
  /\ thrown' = "none"
  /\ UNCHANGED <<inputVars, loading, progressLog, error, bulkVars, runVars>>

\* ------------------------------------------------------ report handlers
toggleSelection(name) ==
  /\ selectedNames' = IF name \in selectedNames THEN selectedNames \ {name}
                      ELSE selectedNames \cup {name}
  /\ thrown' = "none"
  /\ UNCHANGED <<inputVars, loading, progressLog, error, resultVars, searchTerm,
                 showBulkConfirm, pendingStatus, runVars>>

\* the "clear selection" button, line 468
clearSelection ==
  /\ selectedNames' = {}
  /\ thrown' = "none"
  /\ UNCHANGED <<inputVars, loading, progressLog, error, resultVars, searchTerm,
                 showBulkConfirm, pendingStatus, runVars>>

initiateBulkChange(status) ==
  /\ pendingStatus' = status
  /\ showBulkConfirm' = TRUE
  /\ thrown' = "none"
  /\ UNCHANGED <<inputVars, loading, progressLog, error, resultVars, searchTerm,
                 selectedNames, runVars>>

\* the dialog's cancel button, line 495
cancelBulkChange ==
  /\ showBulkConfirm' = FALSE
  /\ thrown' = "none"
  /\ UNCHANGED <<inputVars, loading, progressLog, error, resultVars, searchTerm,
                 selectedNames, pendingStatus, runVars>>

WithStatus(list, s) == [i \in 1..Len(list) |-> [list[i] EXCEPT !.status = s]]

\* BulkResults with the moved attendees keeping their status
BulkResults_KeepStatus(r, selected, target) ==
  LET all == r.present \o r.absent \o r.unexpected
      moved == FilterNames(all, selected)
      remaining == FilterNames(all, (AllNames \cup {Undefined}) \ selected)
      list == remaining \o moved
  IN Result(SortFn(FilterStatus(list, {PRESENT})),
            SortFn(FilterStatus(list, {ABSENT})),
            SortFn(FilterStatus(list, AttendanceStatus \ {PRESENT, ABSENT})))

\* BulkResults built from the displayed lists
BulkResults_Displayed(r, selected, target) ==
  LET all == filteredDisplay.present \o filteredDisplay.absent
               \o filteredDisplay.unexpected
      moved == FilterNames(all, selected)
      remaining == FilterNames(all, (AllNames \cup {Undefined}) \ selected)
      list == remaining \o WithStatus(moved, target)
  IN Result(SortFn(FilterStatus(list, {PRESENT})),
            SortFn(FilterStatus(list, {ABSENT})),
            SortFn(FilterStatus(list, AttendanceStatus \ {PRESENT, ABSENT})))

\* BulkResults building the moved attendees anew from name and status
BulkResults_DropOriginal(r, selected, target) ==
  LET all == r.present \o r.absent \o r.unexpected
      moved == FilterNames(all, selected)
      remaining == FilterNames(all, (AllNames \cup {Undefined}) \ selected)
      list == remaining \o [i \in 1..Len(moved) |->
                              Attendee(moved[i].name, target, Undefined)]
  IN Result(SortFn(FilterStatus(list, {PRESENT})),
            SortFn(FilterStatus(list, {ABSENT})),
            SortFn(FilterStatus(list, AttendanceStatus \ {PRESENT, ABSENT})))

\* the object handleBulkStatusChange hands to setFinalResults, lines 202-219
BulkResults(r, selected, target) ==
  LET all == r.present \o r.absent \o r.unexpected
      moved == FilterNames(all, selected)
      remaining == FilterNames(all, (AllNames \cup {Undefined}) \ selected)
      list == remaining \o WithStatus(moved, target)
  IN Result(SortFn(FilterStatus(list, {PRESENT})),
            SortFn(FilterStatus(list, {ABSENT})),
            SortFn(FilterStatus(list, AttendanceStatus \ {PRESENT, ABSENT})))

handleBulkStatusChange ==
  /\ IF finalResults = Null \/ pendingStatus = NoStatus
     THEN UNCHANGED <<finalResults, bulkVars>>
     ELSE /\ finalResults' = BulkResults(finalResults, selectedNames, pendingStatus)
          /\ selectedNames' = {}
          /\ showBulkConfirm' = FALSE
          /\ pendingStatus' = NoStatus
          /\ UNCHANGED searchTerm
  /\ thrown' = "none"
  /\ UNCHANGED <<inputVars, loading, progressLog, error, rawResults, isReviewing,
                 histVars, runVars>>

\* the state setter of line 29; no control of the component calls it
setSearchTerm(term) ==
  /\ searchTerm' = term
  /\ thrown' = "none"
  /\ UNCHANGED <<inputVars, loading, progressLog, error, resultVars,
                 selectedNames, showBulkConfirm, pendingStatus, runVars>>

\* resetApp without the three setters of the bulk request (lines 48, 50, 51)
resetApp_KeepStaged(confirmed) ==
  /\ IF confirmed
     THEN /\ loading' = FALSE
          /\ isReviewing' = FALSE
          /\ rawResults' = Null
          /\ finalResults' = Null
          /\ excelFile' = FALSE
          /\ officialImage' = FALSE
          /\ screenshots' = 0
          /\ progressLog' = <<>>
          /\ error' = NoError
          /\ searchTerm' = Empty
          /\ sourceMode' = "excel"
          /\ sessionFinalized' = FALSE
          /\ ingestedUnique' = TRUE
          /\ rejected' = 0
          /\ UNCHANGED <<excelReading, selectedNames, showBulkConfirm, pendingStatus>>
     ELSE UNCHANGED <<inputVars, loading, progressLog, error, resultVars, bulkVars>>
  /\ thrown' = "none"
  /\ UNCHANGED runVars

\* window.confirm answered with yes (lines 37-51) or with no
resetApp(confirmed) ==
  /\ IF confirmed
     THEN /\ loading' = FALSE
          /\ isReviewing' = FALSE
          /\ rawResults' = Null
          /\ finalResults' = Null
          /\ excelFile' = FALSE
          /\ officialImage' = FALSE
          /\ screenshots' = 0
          /\ progressLog' = <<>>
          /\ error' = NoError
          /\ searchTerm' = Empty
          /\ selectedNames' = {}
          /\ sourceMode' = "excel"
          /\ showBulkConfirm' = FALSE
          /\ pendingStatus' = NoStatus
          /\ sessionFinalized' = FALSE
          /\ ingestedUnique' = TRUE
          /\ rejected' = 0
          /\ UNCHANGED excelReading
     ELSE UNCHANGED <<inputVars, loading, progressLog, error, resultVars, bulkVars>>
  /\ thrown' = "none"
  /\ UNCHANGED runVars

\* ------------------------------------------- the controls on the screen
ClickSourceMode == ViewUpload /\ \E m \in {"excel", "image"} : setSourceModeTo(m)
PickExcel == ViewUpload /\ sourceMode = "excel" /\ handleExcelUpload
PickOfficialImage == ViewUpload /\ sourceMode = "image" /\ handleOfficialImageUpload
PickScreenshots ==
  ViewUpload /\ \E k \in 1..(MaxShots - screenshots) : handleScreenshotsUpload(k)
\* the run button without its disabled attribute
ClickRun_NotDisabled == ViewUpload /\ runAnalysis

\* the run button is disabled while loading
ClickRun == ViewUpload /\ ~loading /\ runAnalysis
ClickReject ==
  ViewReview /\ \E i \in 0..(Len(rawResults.present) - 1) : rejectMatch(i)
ClickFinalize == ViewReview /\ finalizeReport
ClickCheckbox == ViewReport /\ \E n \in NamesIn(filteredDisplay) : toggleSelection(n)
ClickMove ==
  ViewReport /\ selectedNames # {} /\ \E s \in {PRESENT, ABSENT} : initiateBulkChange(s)
ClickClearSelection == ViewReport /\ selectedNames # {} /\ clearSelection
ClickCancel == showBulkConfirm /\ cancelBulkChange
ClickConfirm == showBulkConfirm /\ handleBulkStatusChange
ClickReset == ViewReport /\ \E c \in BOOLEAN : resetApp(c)

Next ==
  \/ ClickSourceMode
  \/ PickExcel
  \/ PickOfficialImage
  \/ PickScreenshots
  \/ ExcelReadDone
  \/ ClickRun
  \/ RosterDone
  \/ EncodeDone
  \/ ShotDone
  \/ MatchDone
  \/ ClickReject
  \/ ClickFinalize
  \/ ClickCheckbox
  \/ ClickMove
  \/ ClickClearSelection
  \/ ClickCancel
  \/ ClickConfirm
  \/ ClickReset

Spec == Init /\ [][Next]_vars

\* ------------------------------------- the handlers called directly
\* The review and report handlers taken as an interface: called at any time,
\* with any argument, on a session that one excel-mode run supplies.
CallReject == \E i \in -1..MaxResp : rejectMatch(i)
CallFinalize == finalizeReport
CallToggle == \E n \in NamesIn(finalResults) : toggleSelection(n)
CallInitiate == \E s \in AttendanceStatus : initiateBulkChange(s)
CallCancel == cancelBulkChange
CallConfirm == handleBulkStatusChange

NextDirect ==
  \/ PickExcel
  \/ PickScreenshots
  \/ ClickRun
  \/ ExcelRosterDone
  \/ RosterFails
  \/ EncodeDone
  \/ ShotDone
  \/ MatchDone
  \/ CallReject
  \/ CallFinalize
  \/ CallToggle
  \/ CallInitiate
  \/ CallCancel
  \/ CallConfirm
  \/ ClickReset

SpecDirect == Init /\ [][NextDirect]_vars

\* ------------------------------------------- the run with several screenshots
PickScreenshotsRun ==
  ViewUpload /\ \E k \in 1..(MaxRunShots - screenshots) : handleScreenshotsUpload(k)

NextRun ==
  \/ ClickSourceMode
  \/ PickExcel
  \/ PickOfficialImage
  \/ PickScreenshotsRun
  \/ ExcelReadDone
  \/ ClickRun
  \/ RosterDone
  \/ EncodeDone
  \/ ShotDone
  \/ MatchDone
  \/ ClickFinalize
  \/ ClickReset

SpecRun == Init /\ [][NextRun]_vars

\* every awaited file read and oracle call of a run returns or fails in the end
RunFairness ==
  /\ WF_vars(RosterDone)
  /\ WF_vars(EncodeDone)
  /\ WF_vars(ShotDone)
  /\ WF_vars(MatchDone)

SpecRunFair == SpecRun /\ RunFairness

\* ------------------------------------- extractNamesFromExcel on any workbook
\* the characters the enumerated cells are made of: a letter, a digit, the
\* space and another whitespace character
Alphabet == {"a", "1", Space, Tab}
AliHassan == <<"A", "l", "i", " ", "H", "a", "s", "s", "a", "n">>
Ali == <<"A", "l", "i">>
Num12345 == <<"1", "2", "3", "4", "5">>
Cells ==
  UNION {[1..k -> Alphabet] : k \in 0..MaxCellLen} \cup {AliHassan, Ali, Num12345}
AllSheets ==
  Sheets \cup {<<<<c>>>> : c \in Cells}
    \cup {<<<<c, AliHassan>>, <<d>>>> : c, d \in {AliHassan, Name1, Ali}}

\* a run in excel mode awaiting extractNamesFromExcel on a file whose sheet is
\* any of AllSheets
InitExcel ==
  /\ sourceMode = "excel"
  /\ excelFile = TRUE
  /\ officialImage = FALSE
  /\ screenshots = 1
  /\ loading = TRUE
  /\ progressLog = <<Msg("excel", 0)>>
  /\ error = NoError
  /\ rawResults = Null
  /\ isReviewing = FALSE
  /\ finalResults = Null
  /\ searchTerm = Empty
  /\ selectedNames = {}
  /\ showBulkConfirm = FALSE
  /\ pendingStatus = NoStatus
  /\ excelReading = FALSE
  /\ runPc = "roster"
  /\ runShots = 1
  /\ runDone = 0
  /\ runMode = "excel"
  /\ officialNames = <<>>
  /\ zoomNames = <<>>
  /\ workbook \in AllSheets
  /\ calls = <<"rosterExcel">>
  /\ shotResults = <<>>
  /\ matchPrompt = NoPrompt
  /\ inFlight = 1
  /\ thrown = "none"
  /\ sessionFinalized = FALSE
  /\ ingestedUnique = TRUE
  /\ rejected = 0

NextExcel == ExcelRosterDone

SpecExcel == InitExcel /\ [][NextExcel]_vars

\* --------------------------------- the report view with a search term set
CallSetSearchTerm == \E t \in SearchTerms : setSearchTerm(t)

NextSearch ==
  \/ PickExcel
  \/ PickScreenshots
  \/ ClickRun
  \/ ExcelRosterDone
  \/ RosterFails
  \/ EncodeDone
  \/ ShotDone
  \/ MatchDone
  \/ ClickFinalize
  \/ ClickCheckbox
  \/ ClickMove
  \/ ClickCancel
  \/ ClickConfirm
  \/ CallSetSearchTerm

SpecSearch == Init /\ [][NextSearch]_vars

\* ================================================================ claims
\* number of attendees of list equal to a
Count(list, a) == Cardinality({i \in 1..Len(list) : list[i] = a})
\* list2 holds the attendees of list1 and one more a
AddsOne(list1, list2, a) ==
  /\ Len(list2) = Len(list1) + 1
  /\ \A i \in 1..Len(list2) :
       Count(list2, list2[i]) = Count(list1, list2[i]) + (IF list2[i] = a THEN 1 ELSE 0)
\* list without the entry at position k (counted from 1)
Without(list, k) ==
  [j \in 1..(Len(list) - 1) |-> IF j < k THEN list[j] ELSE list[j + 1]]
ValidIndex(i) == rawResults # Null /\ 0 <= i /\ i < Len(rawResults.present)

\* C1: when the response ingested last named nobody twice, no name occurs
\* twice in the raw session nor in the finalized classification, whatever
\* rejectMatch, finalize and bulk-reclassify steps followed.
C1_NameUniqueness ==
  ingestedUnique => Unique(rawResults) /\ Unique(finalResults)

C3_RejectOutOfRange ==
  [][\A i \in -1..(MaxResp + 1) :
       (rawResults # Null /\ ~ValidIndex(i) /\ rejectMatch(i)) =>
         /\ thrown' = "TypeError"
         /\ UNCHANGED <<inputVars, loading, progressLog, error, resultVars,
                        bulkVars, runVars>>]_vars

\* an out-of-range call has been made on a held session whose present bucket
\* is not empty
C3_Witness ==
  /\ thrown = "TypeError"
  /\ rawResults # Null
  /\ Len(rawResults.present) > 0

\* C4: a finalizeReport call on a session that was already promoted lets an
\* error escape or leaves the finalized classification as it was.
C4_FinalizeSingleUse ==
  [][(sessionFinalized /\ finalizeReport) =>
       (thrown' # "none" \/ finalResults' = finalResults)]_vars

\* C5: once the session is promoted no raw session is held.
C5_RawConsumed == sessionFinalized => rawResults = Null

Bucket(r, status) ==
  IF status = PRESENT THEN r.present
  ELSE IF status = ABSENT THEN r.absent ELSE r.unexpected
Attendees(r) ==
  {r.present[i] : i \in 1..Len(r.present)} \cup {r.absent[i] : i \in 1..Len(r.absent)}
    \cup {r.unexpected[i] : i \in 1..Len(r.unexpected)}
Elems(list) == {list[i] : i \in 1..Len(list)}
Sorted(list) ==
  \A i, j \in 1..Len(list) : i < j => LocaleCompare(list[i].name, list[j].name) <= 0
AllSorted(r) == Sorted(r.present) /\ Sorted(r.absent) /\ Sorted(r.unexpected)

\* C6: a committed bulk reclassify puts every attendee whose name is selected
\* into the bucket of the staged status, with that status, and leaves none of
\* them in another bucket; the buckets are sorted; the selection is emptied.
C6_BulkCommit ==
  [][(finalResults # Null /\ pendingStatus # NoStatus /\ pendingStatus' = NoStatus
        /\ handleBulkStatusChange) =>
       /\ \A a \in Attendees(finalResults) :
            a.name \in selectedNames =>
              [a EXCEPT !.status = pendingStatus]
                \in Elems(Bucket(finalResults', pendingStatus))
       /\ \A s \in AttendanceStatus :
            \A a \in Elems(Bucket(finalResults', s)) :
              a.name \in selectedNames => (s = pendingStatus /\ a.status = pendingStatus)
       /\ AllSorted(finalResults')
       /\ selectedNames' = {}]_vars

\* a commit has moved a matched attendee (it carries an originalName) out of
\* present
C6_Witness ==
  /\ finalResults # Null
  /\ selectedNames = {}
  /\ pendingStatus = NoStatus
  /\ \E a \in Elems(finalResults.absent) \cup Elems(finalResults.unexpected) :
       a.originalName # Undefined

\* C7: handleBulkStatusChange changes the finalized classification only when
\* a request is staged: initiateBulkChange was called and neither a cancel nor
\* a commit followed it (showBulkConfirm is set by exactly those steps).
C7_TwoStepCommit ==
  [][(handleBulkStatusChange /\ ~showBulkConfirm) => finalResults' = finalResults]_vars

\* C8: every bucket of the raw session and of the finalized classification is
\* in ascending collation order, and sorting it again changes nothing.
C8_SortInvariant ==
  \A r \in {rawResults, finalResults} :
    /\ AllSorted(r)
    /\ SortFn(r.present) = r.present
    /\ SortFn(r.absent) = r.absent
    /\ SortFn(r.unexpected) = r.unexpected

\* a rejectMatch has put a second name into absent, in front of the first
C8_Witness ==
  /\ rejected > 0
  /\ Len(rawResults.absent) = 2
  /\ rawResults.absent[1].name = "A"
  /\ rawResults.absent[2].name = "B"
  /\ Len(rawResults.present) = 0

Phase ==
  IF loading THEN "AnalysisRunning"
  ELSE IF finalResults # Null THEN "Finalized"
  ELSE IF rawResults # Null /\ isReviewing THEN "PendingReview"
  ELSE "Idle"

PhaseSteps ==
  {<<"Idle", "AnalysisRunning">>, <<"AnalysisRunning", "PendingReview">>,
   <<"AnalysisRunning", "Idle">>, <<"PendingReview", "Finalized">>,
   <<"Finalized", "Idle">>}

\* C9: the phase changes only along the steps of the state machine, each by
\* the operation named for it, and a rejectMatch leaves PendingReview in place.
C9_PhaseMachine ==
  [][/\ Phase' # Phase => <<Phase, Phase'>> \in PhaseSteps
     /\ (Phase = "Idle" /\ Phase' = "AnalysisRunning") => RunStarted
     /\ (Phase = "PendingReview" /\ Phase' = "Finalized") => finalizeReport
     /\ (Phase = "Finalized" /\ Phase' = "Idle") => resetApp(TRUE)
     /\ \A i \in 0..(MaxResp + 1) :
          (Phase = "PendingReview" /\ ValidIndex(i) /\ rejectMatch(i)) =>
            Phase' = "PendingReview"]_vars

\* a session finalized after two rejectMatch steps
C9_Witness == Phase = "Finalized" /\ rejected = 2 /\ sessionFinalized

SourcePresent ==
  \/ sourceMode = "excel" /\ excelFile
  \/ sourceMode = "image" /\ officialImage

\* a run request the validation turns down: nothing but error changes
RunTurnedDown ==
  /\ error' = ErrValidation
  /\ ~loading'
  /\ runPc' = "idle"
  /\ UNCHANGED <<inputVars, loading, progressLog, resultVars, bulkVars, runVars>>

\* C10 as stated: a run that was started has a non-empty roster set and at
\* least one image, and a run request without source or images is turned down.
C10_Original ==
  [][/\ (runPc = "roster" /\ runPc' # "roster" /\ error' # ErrRun) =>
          (Len(officialNames') > 0 /\ runShots > 0)
     /\ ((~SourcePresent \/ screenshots = 0) /\ runAnalysis) => RunTurnedDown]_vars

\* C10 amended: loading is entered only with a roster source for the selected
\* mode and at least one image held; a run request without them is turned down.
C10_RunPrecondition ==
  [][/\ (~loading /\ loading') => (SourcePresent /\ screenshots > 0)
     /\ (runPc = "idle" /\ runPc' # "idle") => (SourcePresent /\ screenshots > 0)
     /\ ((~SourcePresent \/ screenshots = 0) /\ runAnalysis) => RunTurnedDown]_vars

\* a run request was turned down
C10_Witness == error = ErrValidation /\ ~loading /\ runPc = "idle"

\* number of calls of the given kind the run in flight has issued
CountCalls(kind) == Cardinality({i \in 1..Len(calls) : calls[i] = kind})

\* C11: a matching call that fails (the request is rejected, the text does
\* not parse, or an array is missing) ends the run with an error, is not sent
\* again, creates no session and leaves the session and the finalized
\* classification as they were.
C11_FailedMatching ==
  [][\A f \in MatchFailures :
       (runPc = "match" /\ MatchFails(f)) =>
         /\ error' # NoError
         /\ ~loading'
         /\ runPc' = "idle"
         /\ inFlight' = 0
         /\ CountCalls("match") = 1
         /\ UNCHANGED resultVars
         /\ ~(rawResults' # Null /\ isReviewing')]_vars

\* a run has ended in an error after its matching request was sent
C11_Witness ==
  /\ error = ErrRun
  /\ runPc = "idle"
  /\ ~loading
  /\ rawResults = Null
  /\ Len(progressLog) > 0
  /\ progressLog[Len(progressLog)] = Msg("matching", 0)

\* the reader runAnalysis calls for the mode it captured
RosterCall == IF runMode = "excel" THEN "rosterExcel" ELSE "rosterImage"

\* C12: when the roster extraction of the selected mode returns no name, the
\* run ends with an error; the only call it has issued is the reader of that
\* mode (no screenshot extraction, no matching request, not the reader of the
\* other mode); no session is created.
C12_ZeroRoster ==
  [][(runPc = "roster" /\ RosterExtracted(<<>>)) =>
       /\ error' = ErrNoNames
       /\ ~loading'
       /\ runPc' = "idle"
       /\ inFlight' = 0
       /\ calls = <<RosterCall>>
       /\ UNCHANGED resultVars
       /\ ~(rawResults' # Null /\ isReviewing')]_vars

\* an excel-mode run has ended with no name found while a roster image, the
\* file of the other mode, was held
C12_Witness ==
  /\ error = ErrNoNames
  /\ runPc = "idle"
  /\ ~loading
  /\ rawResults = Null
  /\ progressLog = <<Msg("excel", 0)>>
  /\ officialImage

Range(list) == {list[i] : i \in 1..Len(list)}
\* the names the extraction calls that did not fail have returned
ReturnedNames(results) ==
  UNION {Range(results[i].names) : i \in {j \in 1..Len(results) : ~results[j].failed}}
SomeShotFailed == \E i \in 1..Len(shotResults) : shotResults[i].failed

\* C13: a screenshot whose extraction call fails contributes an empty list
\* and the run goes on: the next screenshot's call is issued or, after the
\* last one, the matching request with the names of the screenshots that did
\* not fail; from there a well-formed answer still gives a session to review.
C13_ImageFailureNotFatal ==
  /\ [][\A out \in ImageOutcomes :
          (out.failed /\ runPc = "shots" /\ ShotReturned(out)) =>
            /\ shotResults' = Append(shotResults, [failed |-> TRUE, names |-> <<>>])
            /\ zoomNames' = zoomNames
            /\ loading' /\ error' = error
            /\ runDone + 1 < runShots =>
                 (runPc' = "shots" /\ calls' = Append(calls, "shot"))
            /\ runDone + 1 = runShots =>
                 /\ runPc' = "match"
                 /\ calls' = Append(calls, "match")
                 /\ matchPrompt'.sent
                 /\ Range(matchPrompt'.zoom) = ReturnedNames(shotResults')]_vars
  /\ [][(runPc = "match" /\ SomeShotFailed /\ rawResults' # rawResults) =>
          (rawResults' # Null /\ isReviewing' /\ ~loading' /\ error' = error)]_vars
  /\ [](runPc = "match" /\ SomeShotFailed =>
          ENABLED (\E r \in Responses : Ingest(MapResponse(r))))

\* the matching request was sent with the names of the second screenshot
\* after the extraction call of the first one had failed
C13_Witness ==
  /\ runPc = "match"
  /\ Len(shotResults) = 2
  /\ shotResults[1].failed
  /\ ~shotResults[2].failed
  /\ matchPrompt.sent
  /\ matchPrompt.zoom = <<Line2, Line1>>

NoDup(list) == \A i, j \in 1..Len(list) : i # j => list[i] # list[j]
\* the step ends a runAnalysis call that was past the validation
RunEnds == inFlight' < inFlight
\* the step sends a matching request
MatchSent == Len(calls') > 0 /\ calls'[Len(calls')] = "match" /\ calls' # calls
\* what a sent matching request is and when it is sent
MatchRequestRight ==
  MatchSent =>
    /\ CountCalls("match") = 0
    /\ runDone' = runShots
    /\ Len(shotResults') = runShots
    /\ CountCalls("shot") = runShots
    /\ matchPrompt' = Prompt(officialNames, zoomNames')
    /\ Len(officialNames) > 0
    /\ Range(matchPrompt'.zoom) = ReturnedNames(shotResults')
    /\ NoDup(matchPrompt'.zoom)

\* C14 as stated: a run that got past the roster extraction has sent exactly
\* one matching request when it ends; the request is sent after the extraction
\* call of every screenshot has returned, with the full roster list and the
\* union of the names returned for the screenshots.
C14_Original ==
  [][/\ (RunEnds /\ runPc \in {"encode", "shots", "match"}) => CountCalls("match") = 1
     /\ MatchRequestRight]_vars

\* C14 amended: a run sends at most one matching request, and has sent
\* exactly one when it ends after its screenshots were all read (none when
\* reading a screenshot file failed); the request is as above.
C14_OneMatchingRequest ==
  [][/\ CountCalls("match") <= 1 /\ (runPc = "match" <=> CountCalls("match") = 1)
     /\ (RunEnds /\ runPc \in {"shots", "match"}) => CountCalls("match") = 1
     /\ (RunEnds /\ runPc \in {"roster", "encode"}) => CountCalls("match") = 0
     /\ MatchRequestRight]_vars

\* the one request of a run with two screenshots carries the names of both
C14_Witness ==
  /\ runPc = "match"
  /\ CountCalls("match") = 1
  /\ Len(shotResults) = 2
  /\ shotResults[1].names = <<Line1, Line1>>
  /\ shotResults[2].names = <<Line2, Line1>>
  /\ matchPrompt.zoom = <<Line1, Line2>>
  /\ matchPrompt.official = <<Name1, Name2>>

\* C15: at most one runAnalysis call is in flight; while one is, the run
\* button is disabled (loading); a call starts only when none is in flight.
C15_SingleInFlight ==
  /\ [](/\ inFlight <= 1
        /\ (inFlight = 1 <=> runPc # "idle")
        /\ (runPc # "idle" => loading))
  /\ [][inFlight' > inFlight => (inFlight = 0 /\ runPc = "idle" /\ ~loading)]_vars

\* a run is awaiting the matching answer in the upload view, with a roster
\* file and screenshots held: a further runAnalysis call would pass the
\* validation
C15_Witness ==
  /\ runPc = "match"
  /\ inFlight = 1
  /\ loading
  /\ ViewUpload
  /\ hasSource
  /\ screenshots > 0

\* number of whitespace-separated tokens of val
TokenCount(val) ==
  Cardinality({i \in 1..Len(val) :
                 val[i] \notin Whitespace /\ (i = 1 \/ val[i - 1] \in Whitespace)})
ParsesAsNumber(val) == val # <<>> /\ \A i \in 1..Len(val) : val[i] \in Digits
\* a candidate name as the contract defines it
IsCandidate(cell) ==
  LET val == Trim(cell)
  IN /\ val # <<>>
     /\ Len(val) > 5
     /\ TokenCount(val) >= 2
     /\ ~ParsesAsNumber(val)

\* C16: extractNamesFromExcel selects a cell value if and only if, trimmed,
\* it is non-empty, longer than 5, has at least 2 whitespace-separated tokens
\* and does not parse as a number.
C16_CandidateFilter ==
  [][ExcelRosterDone =>
       \A c \in Range(Flatten(workbook)) :
         (Trim(c) \in Range(officialNames')) <=> IsCandidate(c)]_vars

\* C17: no name occurs twice in the roster list a run has extracted (from a
\* workbook or from a roster image), nor in the names collected from the
\* screenshots, nor in the lists of the matching request.
C17_Deduplication ==
  /\ NoDup(officialNames)
  /\ NoDup(zoomNames)
  /\ NoDup(matchPrompt.official)
  /\ NoDup(matchPrompt.zoom)

\* the attendee is not shown under the search term
Hidden(a) == ~FilterFn(a, ToLowerCase(searchTerm))

\* C18: a change of the search term leaves the finalized classification, the
\* raw session, the selection and the staged request as they are; a committed
\* bulk reclassify moves every attendee whose name is selected, shown or
\* hidden, and keeps every other attendee, shown or hidden.
C18_FilterIsView ==
  [][/\ searchTerm' # searchTerm =>
          UNCHANGED <<rawResults, finalResults, selectedNames, pendingStatus,
                      showBulkConfirm>>
     /\ (finalResults # Null /\ pendingStatus # NoStatus /\ pendingStatus' = NoStatus
           /\ handleBulkStatusChange) =>
          /\ \A a \in Attendees(finalResults) :
               IF a.name \in selectedNames
               THEN [a EXCEPT !.status = pendingStatus]
                      \in Elems(Bucket(finalResults', pendingStatus))
               ELSE a \in Elems(Bucket(finalResults', a.status))
          /\ Size(finalResults') = Size(finalResults)]_vars

\* under the term "Zoom" the absent bucket holds an attendee that a commit
\* moved out of present and that the term hides
C18_Witness ==
  /\ searchTerm = "Zoom"
  /\ finalResults # Null
  /\ selectedNames = {}
  /\ \E a \in Elems(finalResults.absent) : a.originalName = "A" /\ Hidden(a)

\* C19: no rejectMatch call changes the finalized classification, and once a
\* finalized classification exists it changes only by a committed bulk
\* reclassify or by the reset that discards it.
C19_RejectReviewOnly ==
  [][/\ \A i \in -1..(MaxResp + 1) : rejectMatch(i) => finalResults' = finalResults
     /\ (finalResults # Null /\ finalResults' # finalResults) =>
          \/ finalResults' = Null /\ resetApp(TRUE)
          \/ pendingStatus # NoStatus /\ handleBulkStatusChange]_vars

\* the values the component's state hooks start with (lines 12-32)
ComponentInitial ==
  /\ sourceMode = "excel"
  /\ ~excelFile
  /\ ~officialImage
  /\ screenshots = 0
  /\ ~loading
  /\ progressLog = <<>>
  /\ error = NoError
  /\ rawResults = Null
  /\ ~isReviewing
  /\ finalResults = Null
  /\ searchTerm = Empty
  /\ selectedNames = {}
  /\ ~showBulkConfirm
  /\ pendingStatus = NoStatus

\* C20: the step that discards a finalized classification (the confirmed
\* reset) leaves every state hook of the component at its initial value, so the
\* session, the selection, the staged bulk request, the uploaded inputs, the
\* progress log and the error are cleared and the phase is Idle; and wherever
\* the reset is offered, declining its confirmation is a step that changes
\* none of them.
C20_ResetToInitial ==
  /\ [][(finalResults # Null /\ finalResults' = Null) =>
          (ComponentInitial' /\ Phase' = "Idle")]_vars
  /\ [](ViewReport =>
          ENABLED (resetApp(FALSE) /\ UNCHANGED <<inputVars, loading, progressLog,
                                                  error, resultVars, bulkVars,
                                                  runVars>>))

\* no file is held while the read of an uploaded workbook is still awaited:
\* only a confirmed reset leaves that, and everything else is initial
C20_Witness ==
  /\ excelReading
  /\ ComponentInitial
  /\ Phase = "Idle"

\* a handler call that reports nothing: no exception and the error left as it was
NoReport == thrown' = "none" /\ UNCHANGED error

\* the session, the finalized classification, the selection and the phase
Guarded == UNCHANGED <<rawResults, isReviewing, finalResults, selectedNames>> /\ Phase' = Phase

\* C21: finalizeReport called with no raw session, and handleBulkStatusChange
\* called with no staged status or no finalized classification, each report a
\* usage error (no such call ends without one), and each leaves the session,
\* the finalized classification, the selection and the phase as they were.
C21_MisuseGuarded ==
  /\ [](rawResults = Null => ~ENABLED (finalizeReport /\ NoReport))
  /\ []((finalResults = Null \/ pendingStatus = NoStatus) =>
          ~ENABLED (handleBulkStatusChange /\ NoReport))
  /\ [][(rawResults = Null /\ finalizeReport) => Guarded]_vars
  /\ [][((finalResults = Null \/ pendingStatus = NoStatus) /\ handleBulkStatusChange)
          => Guarded]_vars

\* C22: every step that dismisses the bulk confirmation dialog, by its cancel
\* button as by a committed reclassify, leaves the selection empty.
C22_CancelClearsSelection ==
  [][(showBulkConfirm /\ ~showBulkConfirm') => selectedNames' = {}]_vars

\* the two lists hold the same entries the same number of times
SameBag(s, t) ==
  /\ Len(s) = Len(t)
  /\ \A x \in Range(s) \cup Range(t) : Count(s, x) = Count(t, x)
NameList(list) == [i \in 1..Len(list) |-> list[i].name]
PairList(list) == [i \in 1..Len(list) |-> <<list[i].name, list[i].originalName>>]

\* C23: the step that ends a run with the parsed response r stores a raw
\* session whose present, absent and unexpected buckets hold exactly the
\* entries of r.present (name and originalName), r.absent and r.unexpected,
\* each the same number of times, every bucket sorted by name, and the phase
\* is PendingReview.
C23_IngestStoresResponse ==
  [][(runPc = "match" /\ isReviewing' /\ rawResults' # Null) =>
      \A r \in Responses :
       Ingest(MapResponse(r)) =>
         /\ SameBag(PairList(rawResults'.present), PairList(r.present))
         /\ SameBag(NameList(rawResults'.absent), r.absent)
         /\ SameBag(NameList(rawResults'.unexpected), r.unexpected)
         /\ AllSorted(rawResults')
         /\ Phase' = "PendingReview"]_vars

\* a session just ingested (nothing rejected yet) with an entry in two buckets
C23_Witness ==
  /\ Phase = "PendingReview"
  /\ rejected = 0
  /\ Len(rawResults.present) = 1
  /\ rawResults.present[1].originalName = "A-zoom"
  /\ Len(rawResults.absent) = 1

\* every attendee of the list has the status s
HasStatus(list, s) == \A i \in 1..Len(list) : list[i].status = s
StatusMatchesBucket(r) ==
  r # Null =>
    /\ HasStatus(r.present, PRESENT)
    /\ HasStatus(r.absent, ABSENT)
    /\ HasStatus(r.unexpected, UNEXPECTED)

\* C24: in every reachable state every attendee of a bucket has the status of
\* that bucket, in the raw session and in the finalized classification.
C24_StatusMatchesBucket ==
  StatusMatchesBucket(rawResults) /\ StatusMatchesBucket(finalResults)

\* a match was rejected, the session finalized and a bulk reclassify committed
C24_Witness ==
  /\ rawResults # Null
  /\ rejected > 0
  /\ Len(rawResults.absent) > 0
  /\ finalResults # Null
  /\ finalResults # rawResults
  /\ Size(finalResults) > 0

\* C25: while a run is extracting or matching, with k extraction calls issued:
\* at most one of them has not returned (call i+1 is issued only when call i
\* has returned, exactly one is outstanding while extracting); the progress
\* log holds, behind the roster message, the messages of images 1..k in that
\* order, so the message of image i is there when its call is; and the
\* matching message comes only when all runShots calls have returned, behind
\* all their messages.
C25_SequentialExtraction ==
  runPc \in {"shots", "match"} =>
    LET k == CountCalls("shot")
    IN /\ k - Len(shotResults) \in {0, 1}
       /\ runPc = "shots" => k = Len(shotResults) + 1 /\ Len(progressLog) = 1 + k
       /\ Len(progressLog) >= 1 + k
       /\ \A i \in 1..k : progressLog[1 + i] = Msg("shot", i)
       /\ runPc = "match" =>
            /\ k = runShots
            /\ Len(shotResults) = runShots
            /\ Len(progressLog) = k + 2
            /\ progressLog[k + 2] = Msg("matching", 0)

\* the matching request of a run with two screenshots is outstanding
C25_Witness ==
  /\ runPc = "match"
  /\ runShots = 2
  /\ CountCalls("shot") = 2
  /\ Len(shotResults) = 2
  /\ progressLog[4] = Msg("matching", 0)

AllOf(r) == r.present \o r.absent \o r.unexpected
\* the attendees of list whose name is not selected
Unselected(list) == FilterNames(list, (AllNames \cup {Undefined}) \ selectedNames)

\* C27: a committed bulk reclassify keeps the names over the three buckets,
\* each as many times as before, and with each name its originalName; and the
\* attendees whose name is not selected are, bucket by bucket, the same
\* records (name, status, originalName) before and after.
C27_BulkConserves ==
  [][(finalResults # Null /\ pendingStatus # NoStatus /\ pendingStatus' = NoStatus
        /\ handleBulkStatusChange) =>
       /\ SameBag(NameList(AllOf(finalResults)), NameList(AllOf(finalResults')))
       /\ SameBag(PairList(AllOf(finalResults)), PairList(AllOf(finalResults')))
       /\ \A s \in AttendanceStatus :
            LET before == Unselected(Bucket(finalResults, s))
                after == FilterNames(Bucket(finalResults', s),
                                     (AllNames \cup {Undefined}) \ selectedNames)
            IN SameBag(before, after)]_vars

\* a matched attendee was moved to the absent list by a committed reclassify
\* and has its originalName there, next to an attendee that was not moved
C27_Witness ==
  /\ finalResults # Null
  /\ selectedNames = {}
  /\ pendingStatus = NoStatus
  /\ \E i \in 1..Len(finalResults.absent) :
       finalResults.absent[i].originalName = "A-zoom"
  /\ Size(finalResults) = 2

\* C28: with responses whose names are non-empty and whose originalName is
\* non-empty or absent (all responses drawn are), no attendee of the raw
\* session or of the finalized classification has the empty name.
C28_NoEmptyNames ==
  Empty \notin NamesIn(rawResults) \cup NamesIn(finalResults)

\* the views that are rendered in the current state
ViewsShown ==
  {v \in {"upload", "review", "report"} :
     \/ v = "upload" /\ ViewUpload
     \/ v = "review" /\ ViewReview
     \/ v = "report" /\ ViewReport}

\* C29: in every reachable state exactly one of the upload, review and report
\* views is rendered; equivalently, whenever raw results are held, the review
\* flag is set or final results are held.
C29_SomeViewActive ==
  /\ Cardinality(ViewsShown) = 1
  /\ rawResults # Null => (isReviewing \/ finalResults # Null)

\* the report is rendered while the raw session is still held, its review
\* flag cleared
C29_Witness ==
  /\ rawResults # Null
  /\ ~isReviewing
  /\ ViewsShown = {"report"}
====
